---- MODULE Spec2Model ----
(***************************************************************************)
(* Model of the Sonic Murder autosplitter (src/src/lib.rs): the global     *)
(* State, the per-tick entry point update(), the attach / resolve /        *)
(* memory-chase pipeline and the start / split / reset rules.  The host    *)
(* (timer, process API, settings store, game memory) is the environment:   *)
(* its answers are inputs of the tick, its own moves are separate actions. *)
(***************************************************************************)
EXTENDS Integers, Sequences, FiniteSets, TLC

\* ------------------------------------------------------------ bounds
\* Process handles the host hands out in one run (sessions that can begin).
MaxSessions == 2

\* ------------------------------------------------------------ data
\* Option<T>: None is the empty sequence, Some(x) the one-element sequence.
None == <<>>

\* [u16; 90]
DialogueLen == 90

\* Array indices: Rust's 0..89 are 1..90 here.
Idx == 1..DialogueLen

\* The eleven text constants, element for element.
START_SCRIBBLE ==
  <<
    60, 115, 116, 121, 108, 101, 61, 84, 104, 111, 117, 103, 104, 116, 62, 40, 72, 111, 112,
    101, 32, 112, 97, 115, 115, 101, 110, 103, 101, 114, 115, 32, 99, 97, 110, 32, 114, 101,
    97, 100, 32, 109, 121, 32, 115, 99, 114, 105, 98, 98, 108, 101, 8230, 41, 60, 47, 115,
    116, 121, 108, 101, 62, 0, 0, 0, 0, 0, 0, 0, 0, 0, 0, 0, 0, 0, 0, 0, 0, 0, 0, 0, 0, 0,
    0, 0, 0, 0, 0, 0, 0
  >>

\* A reset text that is the start text.
ResetSameAsStart == START_SCRIBBLE

RESET ==
  <<
    60, 115, 116, 121, 108, 101, 61, 84, 104, 111, 117, 103, 104, 116, 62, 40, 80, 104, 101,
    119, 44, 32, 109, 97, 100, 101, 32, 105, 116, 32, 111, 110, 32, 116, 104, 101, 32, 116,
    114, 97, 105, 110, 32, 102, 105, 102, 116, 101, 101, 110, 32, 109, 105, 110, 117, 116,
    101, 115, 32, 97, 104, 101, 97, 100, 32, 111, 102, 32, 115, 99, 104, 101, 100, 117, 108,
    101, 46, 41, 60, 47, 115, 116, 121, 108, 101, 62, 0, 0, 0, 0
  >>

STATION_END ==
  <<
    69, 118, 101, 114, 121, 111, 110, 101, 44, 32, 116, 111, 32, 121, 111, 117, 114, 32,
    115, 116, 97, 116, 105, 111, 110, 115, 33, 0, 0, 0, 0, 0, 0, 0, 0, 0, 0, 0, 0, 0, 0, 0,
    0, 0, 0, 0, 0, 0, 0, 0, 0, 0, 0, 0, 0, 0, 0, 0, 0, 0, 0, 0, 0, 0, 0, 0, 0, 0, 0, 0, 0,
    0, 0, 0, 0, 0, 0, 0, 0, 0, 0, 0, 0, 0, 0, 0, 0, 0, 0, 0
  >>

END_AMY ==
  <<
    60, 115, 116, 121, 108, 101, 61, 84, 104, 111, 117, 103, 104, 116, 62, 40, 73, 8217,
    108, 108, 32, 107, 101, 101, 112, 32, 101, 118, 101, 114, 121, 111, 110, 101, 32, 115,
    97, 102, 101, 32, 67, 111, 110, 100, 117, 99, 116, 111, 114, 44, 32, 121, 111, 117,
    8217, 108, 108, 32, 115, 101, 101, 46, 41, 60, 47, 115, 116, 121, 108, 101, 62, 0, 0, 0,
    0, 0, 0, 0, 0, 0, 0, 0, 0, 0, 0, 0, 0, 0, 0, 0
  >>

END_KNUCKLES ==
  <<
    79, 110, 119, 97, 114, 100, 115, 33, 0, 0, 0, 0, 0, 0, 0, 0, 0, 0, 0, 0, 0, 0, 0, 0, 0,
    0, 0, 0, 0, 0, 0, 0, 0, 0, 0, 0, 0, 0, 0, 0, 0, 0, 0, 0, 0, 0, 0, 0, 0, 0, 0, 0, 0, 0,
    0, 0, 0, 0, 0, 0, 0, 0, 0, 0, 0, 0, 0, 0, 0, 0, 0, 0, 0, 0, 0, 0, 0, 0, 0, 0, 0, 0, 0,
    0, 0, 0, 0, 0, 0, 0
  >>

END_ESPIO_VECTOR ==
  <<
    79, 107, 97, 121, 33, 32, 84, 104, 101, 32, 105, 110, 118, 101, 115, 116, 105, 103, 97,
    116, 105, 111, 110, 32, 99, 111, 110, 116, 105, 110, 117, 101, 115, 33, 0, 0, 0, 0, 0,
    0, 0, 0, 0, 0, 0, 0, 0, 0, 0, 0, 0, 0, 0, 0, 0, 0, 0, 0, 0, 0, 0, 0, 0, 0, 0, 0, 0, 0,
    0, 0, 0, 0, 0, 0, 0, 0, 0, 0, 0, 0, 0, 0, 0, 0, 0, 0, 0, 0, 0, 0
  >>

END_BLAZE_ROUGE ==
  <<
    76, 101, 116, 39, 115, 32, 100, 111, 32, 105, 116, 33, 0, 0, 0, 0, 0, 0, 0, 0, 0, 0, 0,
    0, 0, 0, 0, 0, 0, 0, 0, 0, 0, 0, 0, 0, 0, 0, 0, 0, 0, 0, 0, 0, 0, 0, 0, 0, 0, 0, 0, 0,
    0, 0, 0, 0, 0, 0, 0, 0, 0, 0, 0, 0, 0, 0, 0, 0, 0, 0, 0, 0, 0, 0, 0, 0, 0, 0, 0, 0, 0,
    0, 0, 0, 0, 0, 0, 0, 0, 0
  >>

END_SHADOW ==
  <<
    73, 116, 39, 115, 32, 110, 111, 119, 32, 111, 114, 32, 110, 101, 118, 101, 114, 33, 0,
    0, 0, 0, 0, 0, 0, 0, 0, 0, 0, 0, 0, 0, 0, 0, 0, 0, 0, 0, 0, 0, 0, 0, 0, 0, 0, 0, 0, 0,
    0, 0, 0, 0, 0, 0, 0, 0, 0, 0, 0, 0, 0, 0, 0, 0, 0, 0, 0, 0, 0, 0, 0, 0, 0, 0, 0, 0, 0,
    0, 0, 0, 0, 0, 0, 0, 0, 0, 0, 0, 0, 0
  >>

END_SONIC ==
  <<
    65, 104, 104, 33, 32, 65, 72, 72, 72, 72, 72, 72, 72, 72, 72, 33, 33, 0, 0, 0, 0, 0, 0,
    0, 0, 0, 0, 0, 0, 0, 0, 0, 0, 0, 0, 0, 0, 0, 0, 0, 0, 0, 0, 0, 0, 0, 0, 0, 0, 0, 0, 0,
    0, 0, 0, 0, 0, 0, 0, 0, 0, 0, 0, 0, 0, 0, 0, 0, 0, 0, 0, 0, 0, 0, 0, 0, 0, 0, 0, 0, 0,
    0, 0, 0, 0, 0, 0, 0, 0, 0
  >>

SONIC_CHASE ==
  <<
    84, 105, 109, 101, 32, 116, 111, 32, 102, 105, 110, 105, 115, 104, 32, 116, 104, 105,
    115, 33, 0, 0, 0, 0, 0, 0, 0, 0, 0, 0, 0, 0, 0, 0, 0, 0, 0, 0, 0, 0, 0, 0, 0, 0, 0, 0,
    0, 0, 0, 0, 0, 0, 0, 0, 0, 0, 0, 0, 0, 0, 0, 0, 0, 0, 0, 0, 0, 0, 0, 0, 0, 0, 0, 0, 0,
    0, 0, 0, 0, 0, 0, 0, 0, 0, 0, 0, 0, 0, 0, 0
  >>

ENDING ==
  <<
    89, 101, 97, 104, 8230, 32, 116, 104, 97, 116, 8217, 115, 32, 106, 117, 115, 116, 32,
    98, 101, 101, 110, 32, 109, 121, 32, 108, 105, 102, 101, 33, 0, 0, 0, 0, 0, 0, 0, 0, 0,
    0, 0, 0, 0, 0, 0, 0, 0, 0, 0, 0, 0, 0, 0, 0, 0, 0, 0, 0, 0, 0, 0, 0, 0, 0, 0, 0, 0, 0,
    0, 0, 0, 0, 0, 0, 0, 0, 0, 0, 0, 0, 0, 0, 0, 0, 0, 0, 0, 0, 0
  >>

Some(x) == <<x>>

IsSome(o) == Len(o) = 1

Unwrap(o) == o[1]

\* ------------------------------------------------------------ machine integers
\* u32 and u64 values are little-endian sequences of 16-bit limbs (two and
\* four of them), so that every value of either width can be written down.
Limb == 65536

U64Of(n) == <<n % Limb, n \div Limb, 0, 0>>

U32Of(n) == <<n % Limb, n \div Limb>>

\* `x as u64` for x: u32: the upper half is filled with zeros.
AsU64(x) == x \o <<0, 0>>

\* a + b on u64, limb by limb with the carry, modulo 2^64 (the sums the code
\* forms on the inputs used here stay below 2^64).
Add64(a, b) ==
  LET s1 == a[1] + b[1]
      s2 == a[2] + b[2] + s1 \div Limb
      s3 == a[3] + b[3] + s2 \div Limb
      s4 == a[4] + b[4] + s3 \div Limb
  IN <<s1 % Limb, s2 % Limb, s3 % Limb, s4 % Limb>>

\* ------------------------------------------------------------ settings
\* The fields of struct Settings.
ToggleNames ==
  {"start", "reset", "station", "closet", "saloon", "library", "casino",
   "lounge", "conductor", "sonic_chase", "ending"}

\* #[default = true] on every field.
DefaultSettings == [n \in ToggleNames |-> TRUE]

\* What the host's settings store can hold, by the toggles that are off:
\* none, any single one, or the reset master together with a checkpoint
\* toggle (the two toggles the Running branch reads in one tick).
OffSets ==
  {{}} \cup {{n} : n \in ToggleNames} \cup {{"reset", "closet"}}

ToggleMaps == {[n \in ToggleNames |-> n \notin D] : D \in OffSets}

\* Settings::register: registers each field with its default and returns the
\* value the store currently holds for it.
Settings_register(store) ==
  [start |-> store.start, reset |-> store.reset, station |-> store.station,
   closet |-> store.closet, saloon |-> store.saloon, library |-> store.library,
   casino |-> store.casino, lounge |-> store.lounge,
   conductor |-> store.conductor, sonic_chase |-> store.sonic_chase,
   ending |-> store.ending]

\* ------------------------------------------------------------ timer (host)
Phases == {"NotRunning", "Running", "Paused", "Ended"}

\* timer::start / split / reset as the host timer carries them out.  `last`
\* says whether the split that is made closes the final segment.
TimerApply(ph, op, last) ==
  CASE op = "start" -> IF ph = "NotRunning" THEN "Running" ELSE ph
    [] op = "split" -> IF ph = "Running" THEN (IF last THEN "Ended" ELSE "Running") ELSE ph
    [] op = "reset" -> IF ph = "NotRunning" THEN ph ELSE "NotRunning"
    [] OTHER -> ph

\* timer::pause_game_time / resume_game_time on the host's game-time flag.
GameTimeApply(paused, op) ==
  CASE op = "pause_game_time" -> TRUE
    [] op = "resume_game_time" -> FALSE
    [] OTHER -> paused

\* ------------------------------------------------------------ game memory
\* let mut dialogue: [u16; 90] = [0; 90];
InitialDialogue ==
  <<
    0, 0, 0, 0, 0, 0, 0, 0, 0, 0, 0, 0, 0, 0, 0, 0, 0, 0, 0, 0, 0, 0, 0, 0, 0, 0, 0, 0, 0,
    0, 0, 0, 0, 0, 0, 0, 0, 0, 0, 0, 0, 0, 0, 0, 0, 0, 0, 0, 0, 0, 0, 0, 0, 0, 0, 0, 0, 0,
    0, 0, 0, 0, 0, 0, 0, 0, 0, 0, 0, 0, 0, 0, 0, 0, 0, 0, 0, 0, 0, 0, 0, 0, 0, 0, 0, 0, 0,
    0, 0, 0
  >>

\* Text buffers the game can hold at the end of the chase, besides the eleven
\* texts the rules know: an empty buffer, a text one character off the station
\* text, the station text followed by stale units after its terminator, and a
\* buffer with no terminator at all.
EmptyText ==
  <<
    0, 0, 0, 0, 0, 0, 0, 0, 0, 0, 0, 0, 0, 0, 0, 0, 0, 0, 0, 0, 0, 0, 0, 0, 0, 0, 0, 0, 0,
    0, 0, 0, 0, 0, 0, 0, 0, 0, 0, 0, 0, 0, 0, 0, 0, 0, 0, 0, 0, 0, 0, 0, 0, 0, 0, 0, 0, 0,
    0, 0, 0, 0, 0, 0, 0, 0, 0, 0, 0, 0, 0, 0, 0, 0, 0, 0, 0, 0, 0, 0, 0, 0, 0, 0, 0, 0, 0,
    0, 0, 0
  >>

NearStation == [STATION_END EXCEPT ![27] = 63]

StationThenStale == [STATION_END EXCEPT ![DialogueLen] = 33]

Unterminated ==
  <<
    65, 65, 65, 65, 65, 65, 65, 65, 65, 65, 65, 65, 65, 65, 65, 65, 65, 65, 65, 65, 65, 65,
    65, 65, 65, 65, 65, 65, 65, 65, 65, 65, 65, 65, 65, 65, 65, 65, 65, 65, 65, 65, 65, 65,
    65, 65, 65, 65, 65, 65, 65, 65, 65, 65, 65, 65, 65, 65, 65, 65, 65, 65, 65, 65, 65, 65,
    65, 65, 65, 65, 65, 65, 65, 65, 65, 65, 65, 65, 65, 65, 65, 65, 65, 65, 65, 65, 65, 65,
    65, 65
  >>

\* The buffers game memory can hold, by number.
RawTexts ==
  <<START_SCRIBBLE, RESET, STATION_END, END_AMY, END_KNUCKLES, END_ESPIO_VECTOR,
    END_BLAZE_ROUGE, END_SHADOW, END_SONIC, SONIC_CHASE, ENDING,
    EmptyText, NearStation, StationThenStale, Unterminated>>

\* The number of reads in the chase: four pointers, then the buffer.
ChaseReads == 5

\* One tick's view of game memory: `failed` is the read that fails (0: none),
\* `text` the number of the buffer the last read returns when none fails.
ChaseResults ==
  {[failed |-> k, text |-> 0] : k \in 1..ChaseReads}
    \cup {[failed |-> 0, text |-> j] : j \in 1..Len(RawTexts)}

\* for val in st { if val == 0 { break } else { dialogue[i] = val; i += 1 } }
\* The loop leaves at the first zero of st, or after its last element: Breaks
\* is the iteration that breaks (one past the end when none does), and every
\* iteration before it has written dialogue[i] = st[i].
Breaks(st) ==
  IF \E i \in 1..Len(st) : st[i] = 0
  THEN CHOOSE i \in 1..Len(st) : st[i] = 0 /\ \A j \in 1..(i - 1) : st[j] # 0
  ELSE Len(st) + 1

\* The loop without its break: the whole buffer is copied.
CopyLoopWhole(st, dialogue) == st

CopyLoop(st, dialogue) ==
  LET b == Breaks(st) IN
  SubSeq(st, 1, b - 1) \o SubSeq(dialogue, b, Len(dialogue))

\* A chase that leaves a text behind when a read fails.
ReadDialogueNoDefault(chase) ==
  IF chase.failed = 0 THEN CopyLoop(RawTexts[chase.text], InitialDialogue)
  ELSE STATION_END

\* The body of State::update up to the watcher: the nested `if let Ok(..)`
\* reads leave the zeroed array untouched as soon as one of them fails.
ReadDialogue(chase) ==
  IF chase.failed = 0 THEN CopyLoop(RawTexts[chase.text], InitialDialogue)
  ELSE InitialDialogue

\* ReadDialogue, tabulated once over the inputs.
SampleOf == [c \in ChaseResults |-> ReadDialogue(c)]

\* ------------------------------------------------------------ watcher (asr)
\* Watcher::update that overwrites current without shifting it into old.
Watcher_updateKeepsOld(pair, value) ==
  IF IsSome(pair)
  THEN Some([old |-> Unwrap(pair).old, current |-> value])
  ELSE Some([old |-> value, current |-> value])

\* Watcher::update(Some(value)): the first value fills both halves of the
\* pair, every later one shifts current into old.
Watcher_update(pair, value) ==
  IF IsSome(pair)
  THEN Some([old |-> Unwrap(pair).current, current |-> value])
  ELSE Some([old |-> value, current |-> value])

\* Pair::changed
Pair_changed(p) == p.old # p.current

\* ------------------------------------------------------------ process (host)
\* Where the host maps UnityPlayer.dll in the process behind handle `pid`,
\* where the signature sits in it and which displacement follows it.  Every
\* process gets its own layout, so an address tells which process it is from.
ModuleBaseOf(pid) == pid * 4096

ModuleSizeOf(pid) == 1024

ScanHitOf(pid) == U64Of(ModuleBaseOf(pid) + 16 * pid)

DisplacementOf(pid) ==
  IF pid % 2 = 1 THEN U32Of(256 + pid) ELSE <<Limb - 16 * pid, Limb - 1>>

\* The host's answers to attach_process for the process that would get handle
\* `pid`: Process::attach, get_module_address, get_module_size.
AttachAnswers(pid) ==
  {[proc |-> None, base |-> None, size |-> None],
   [proc |-> Some(pid), base |-> None, size |-> None],
   [proc |-> Some(pid), base |-> Some(ModuleBaseOf(pid)), size |-> None],
   [proc |-> Some(pid), base |-> Some(ModuleBaseOf(pid)),
    size |-> Some(ModuleSizeOf(pid))]}

\* The host's answers to look_for_addresses in process `pid`: the scan, then
\* the u32 read behind the hit.
ResolveAnswers(pid) ==
  {[scan |-> None, rd |-> None],
   [scan |-> Some(ScanHitOf(pid)), rd |-> None],
   [scan |-> Some(ScanHitOf(pid)), rd |-> Some(DisplacementOf(pid))]}

NoAnswer == [scan |-> None, rd |-> None]

\* ProcessInfo::attach_process
AttachProcess(ans) ==
  LET proc == ans.proc IN
  IF ~IsSome(proc) THEN None
  ELSE IF ~IsSome(ans.base) THEN None
  ELSE IF ~IsSome(ans.size) THEN None
  ELSE Some([game |-> Unwrap(proc),
             unity_module_base |-> Unwrap(ans.base),
             unity_module_size |-> Unwrap(ans.size),
             addresses |-> None])

\* A look_for_addresses that never finds the address.
LookForAddressesFails(info, ans) == None

\* ProcessInfo::look_for_addresses
LookForAddresses(info, ans) ==
  IF ~IsSome(ans.scan) THEN None
  ELSE LET ptr == Add64(Unwrap(ans.scan), U64Of(3)) IN
       IF ~IsSome(ans.rd) THEN None
       ELSE Some([dialogue_base_address |->
                    Add64(ptr, Add64(U64Of(4), AsU64(Unwrap(ans.rd))))])

\* State::init, `self.game = None` on a closed handle.
ClosedSessionKept(info) == Some(info)

ClosedSession(info) == None

\* State::init, the value it returns once the handle is open.
InitResultAlways(addresses) == TRUE

InitResult(addresses) == IsSome(addresses)

\* State::init with look_for_addresses called whether or not the address is
\* already there.
State_initLooksAgain(game0, att, open, res) ==
  LET g1 == IF ~IsSome(game0) THEN AttachProcess(att) ELSE game0 IN
  IF ~IsSome(g1) THEN [game |-> g1, ret |-> FALSE, looked |-> FALSE]
  ELSE IF ~open
  THEN [game |-> ClosedSession(Unwrap(g1)), ret |-> FALSE, looked |-> FALSE]
  ELSE LET info == Unwrap(g1)
           a == LookForAddresses(info, res)
       IN [game |-> Some([info EXCEPT !.addresses = a]), ret |-> InitResult(a),
           looked |-> TRUE]

\* State::init: the new self.game, the returned bool, and whether it called
\* look_for_addresses.
State_init(game0, att, open, res) ==
  LET g1 == IF ~IsSome(game0) THEN AttachProcess(att) ELSE game0 IN
  IF ~IsSome(g1) THEN [game |-> g1, ret |-> FALSE, looked |-> FALSE]
  ELSE IF ~open
  THEN [game |-> ClosedSession(Unwrap(g1)), ret |-> FALSE, looked |-> FALSE]
  ELSE LET info == Unwrap(g1)
           a == IF ~IsSome(info.addresses) THEN LookForAddresses(info, res)
                ELSE info.addresses
       IN [game |-> Some([info EXCEPT !.addresses = a]), ret |-> InitResult(a),
           looked |-> ~IsSome(info.addresses)]

\* State::update: its two early returns, then the chase and the watcher.
UpdateReads(game0) == IsSome(game0) /\ IsSome(Unwrap(game0).addresses)

State_update(game0, pair, chase) ==
  IF ~UpdateReads(game0) THEN pair
  ELSE Watcher_update(pair, SampleOf[chase])

\* ------------------------------------------------------------ rules
\* State::start without changed().
State_startOnText(st, pair) ==
  IF ~IsSome(st) THEN FALSE
  ELSE IF ~Unwrap(st).start THEN FALSE
  ELSE IF ~IsSome(pair) THEN FALSE
  ELSE Unwrap(pair).current = START_SCRIBBLE

\* State::start
State_start(st, pair) ==
  IF ~IsSome(st) THEN FALSE
  ELSE IF ~Unwrap(st).start THEN FALSE
  ELSE IF ~IsSome(pair) THEN FALSE
  ELSE Pair_changed(Unwrap(pair)) /\ Unwrap(pair).current = START_SCRIBBLE

\* The match with the toggles of two arms exchanged.
SplitMatchSwapped(old, s) ==
  IF old = STATION_END THEN s.station
  ELSE IF old = END_AMY THEN s.saloon
  ELSE IF old = END_KNUCKLES THEN s.closet
  ELSE IF old = END_ESPIO_VECTOR THEN s.library
  ELSE IF old = END_BLAZE_ROUGE THEN s.casino
  ELSE IF old = END_SHADOW THEN s.lounge
  ELSE IF old = END_SONIC THEN s.conductor
  ELSE IF old = SONIC_CHASE THEN s.sonic_chase
  ELSE IF old = ENDING THEN s.ending
  ELSE FALSE

\* State::split, the match on dialogue.old, arm by arm.
SplitMatch(old, s) ==
  IF old = STATION_END THEN s.station
  ELSE IF old = END_AMY THEN s.closet
  ELSE IF old = END_KNUCKLES THEN s.saloon
  ELSE IF old = END_ESPIO_VECTOR THEN s.library
  ELSE IF old = END_BLAZE_ROUGE THEN s.casino
  ELSE IF old = END_SHADOW THEN s.lounge
  ELSE IF old = END_SONIC THEN s.conductor
  ELSE IF old = SONIC_CHASE THEN s.sonic_chase
  ELSE IF old = ENDING THEN s.ending
  ELSE FALSE

\* State::split
State_split(st, pair) ==
  IF ~IsSome(st) THEN FALSE
  ELSE IF ~IsSome(pair) THEN FALSE
  ELSE Pair_changed(Unwrap(pair)) /\ SplitMatch(Unwrap(pair).old, Unwrap(st))

\* State::reset without the comparison against RESET.
State_resetOnAnyChange(st, pair) ==
  IF ~IsSome(st) THEN FALSE
  ELSE IF ~Unwrap(st).reset THEN FALSE
  ELSE IF ~IsSome(pair) THEN FALSE
  ELSE Pair_changed(Unwrap(pair))

\* State::reset
State_reset(st, pair) ==
  IF ~IsSome(st) THEN FALSE
  ELSE IF ~Unwrap(st).reset THEN FALSE
  ELSE IF ~IsSome(pair) THEN FALSE
  ELSE Pair_changed(Unwrap(pair)) /\ Unwrap(pair).current = RESET

\* An is_loading that reports a loading screen.
State_is_loadingTrue == Some(TRUE)

\* State::is_loading
State_is_loading == None

\* A game_time that reports a time.
State_game_timeZero == Some(0)

\* State::game_time
State_game_time == None

\* if let Some(is_loading) = .. { pause_game_time() / resume_game_time() }
LoadingOps(is_loading) ==
  IF IsSome(is_loading)
  THEN (IF Unwrap(is_loading) THEN <<"pause_game_time">> ELSE <<"resume_game_time">>)
  ELSE <<>>

\* if let Some(game_time) = .. { set_game_time(game_time) }
GameTimeOps(game_time) ==
  IF IsSome(game_time) THEN <<"set_game_time">> ELSE <<>>

\* ------------------------------------------------------------ update()
\* A gate for reset and split that only excludes NotRunning.
IsNotNotRunning(ph) == ph # "NotRunning"

\* timer::state() == Running || timer::state() == Paused
IsRunningOrPaused(ph) == ph = "Running" \/ ph = "Paused"

\* A start gate that only excludes Running.
IsNotRunningOrPaused(ph) == ph # "Running"

\* timer::state() == NotRunning
IsNotRunning(ph) == ph = "NotRunning"

\* The branch with split as an `if` of its own instead of the `else if`.
RunningBranchBoth(st, pair) ==
  [ops |-> LoadingOps(State_is_loading) \o GameTimeOps(State_game_time)
             \o (IF State_reset(st, pair) THEN <<"reset">> ELSE <<>>)
             \o (IF State_split(st, pair) THEN <<"split">> ELSE <<>>),
   evals |-> <<"reset", "split">>]

\* The body of the Running/Paused branch: the timer calls it makes, in order,
\* and the rules it evaluates, in order.
RunningBranch(st, pair) ==
  LET r == State_reset(st, pair) IN
  [ops |-> LoadingOps(State_is_loading) \o GameTimeOps(State_game_time)
             \o (IF r THEN <<"reset">>
                 ELSE IF State_split(st, pair) THEN <<"split">> ELSE <<>>),
   evals |-> IF r THEN <<"reset">> ELSE <<"reset", "split">>]

\* The body of the NotRunning branch.
NotRunningBranch(st, pair) ==
  [ops |-> IF State_start(st, pair)
           THEN <<"start">> \o LoadingOps(State_is_loading)
           ELSE <<>>,
   evals |-> <<"start">>]

NoBranch == [ops |-> <<>>, evals |-> <<>>]

\* The host timer after a sequence of calls.
RECURSIVE PhaseAfter(_, _, _)
PhaseAfter(ph, ops, last) ==
  IF ops = <<>> THEN ph
  ELSE PhaseAfter(TimerApply(ph, Head(ops), last), Tail(ops), last)

RECURSIVE PausedAfter(_, _)
PausedAfter(paused, ops) ==
  IF ops = <<>> THEN paused
  ELSE PausedAfter(GameTimeApply(paused, Head(ops)), Tail(ops))

\* Each evaluated rule with the timer phase it was evaluated under.
Stamp(rules, ph) == [i \in 1..Len(rules) |-> [rule |-> rules[i], phase |-> ph]]

\* The first `if` (lines 233-251), under the phase the timer reports.
FirstBranch(st, pair, ph0) ==
  IF IsRunningOrPaused(ph0) THEN RunningBranch(st, pair) ELSE NoBranch

\* The second `if` (lines 253-265), under the phase the timer reports then.
SecondBranch(st, pair, ph1) ==
  IF IsNotRunning(ph1) THEN NotRunningBranch(st, pair) ELSE NoBranch

\* ------------------------------------------------------------ state
VARIABLES
  game,            \* State.game: Option<ProcessInfo>
  settings,        \* State.settings: Option<Settings>
  dialogue,        \* State.watchers.dialogue.pair: Option<Pair<[u16; 90]>>
  sessions,        \* host: process handles handed out so far
  userSettings,    \* host: the settings store as the last tick found it
  gameTimePaused,  \* host: the timer's game-time pause flag
  stable,          \* host: the game runs, and keeps running, from now on
  tick             \* what the last call of update() did

vars ==
  <<game, settings, dialogue, sessions, userSettings, gameTimePaused, stable, tick>>

\* No call of update() yet.
NoTick ==
  [init |-> "none", session |-> 0, looked |-> FALSE, refreshed |-> 0,
   read |-> None, mem |-> None, phases |-> <<>>, ops |-> <<>>, evals |-> <<>>]

\* The static AUTOSPLITTER, and the host before the first tick.
Init ==
  /\ game = None
  /\ settings = None
  /\ dialogue = None
  /\ sessions = 0
  /\ userSettings \in ToggleMaps
  /\ gameTimePaused = FALSE
  /\ stable = FALSE
  /\ tick = NoTick

\* What update() leaves behind when State::init returns false (line 221).
EarlyReturn(g1, open, looked) ==
  [init |-> IF ~IsSome(g1) THEN "unattached" ELSE IF ~open THEN "closed" ELSE "open",
   session |-> IF IsSome(g1) THEN Unwrap(g1).game ELSE 0,
   looked |-> looked,
   refreshed |-> 0, read |-> None, mem |-> None,
   phases |-> <<>>, ops |-> <<>>, evals |-> <<>>]

\* What update() leaves behind when it goes on to State::update and the rules.
FullTick(g2, looked, reads, chase, ph0, b1, ph1, b2) ==
  [init |-> "open",
   session |-> Unwrap(g2).game,
   looked |-> looked,
   refreshed |-> IF reads THEN 1 ELSE 0,
   read |-> IF reads THEN Some(Unwrap(Unwrap(g2).addresses).dialogue_base_address)
            ELSE None,
   mem |-> IF reads THEN Some(chase) ELSE None,
   phases |-> <<ph0, ph1>>,
   ops |-> b1.ops \o b2.ops,
   evals |-> Stamp(b1.evals, ph0) \o Stamp(b2.evals, ph1)]

\* One call of update().  The host's answers are inputs, drawn only where the
\* code asks for them: `Stores` is what the settings store can hold at this
\* tick, `Mem` what game memory can hold; the timer, which the operator moves
\* freely between ticks, answers the first timer::state() with any phase and
\* the later one with what the calls made since have turned that into.
\* (A value is bound with \E over a one-element set so that it is computed once.)
\* Once the host is `stable` the process is there with its module, stays open,
\* and the scan and the read behind it succeed.
updateWith(Stores, Mem) ==
  \E store \in Stores :
  \E st \in {IF IsSome(settings) THEN settings ELSE Some(Settings_register(store))} :
  \E att \in (IF IsSome(game) THEN {[proc |-> None, base |-> None, size |-> None]}
              ELSE {a \in AttachAnswers(sessions + 1) :
                      /\ IsSome(AttachProcess(a)) => sessions < MaxSessions
                      /\ stable => IsSome(a.size)}) :
  \E g1 \in {IF IsSome(game) THEN game ELSE AttachProcess(att)} :
  \E open \in (IF ~IsSome(g1) THEN {FALSE} ELSE IF stable THEN {TRUE} ELSE BOOLEAN) :
  \E res \in (IF IsSome(g1) /\ open /\ ~IsSome(Unwrap(g1).addresses)
              THEN {r \in ResolveAnswers(Unwrap(g1).game) : stable => IsSome(r.rd)}
              ELSE {NoAnswer}) :
  \E i \in {State_init(game, att, open, res)} :
    /\ settings' = st
    /\ game' = i.game
    /\ sessions' = IF ~IsSome(game) /\ IsSome(g1) THEN sessions + 1 ELSE sessions
    /\ userSettings' = store
    /\ stable' = stable
    /\ IF ~i.ret
       THEN /\ dialogue' = dialogue
            /\ gameTimePaused' = gameTimePaused
            /\ tick' = EarlyReturn(g1, open, i.looked)
       ELSE \E reads \in {UpdateReads(i.game)} :
            \E chase \in (IF reads THEN Mem ELSE {[failed |-> 1, text |-> 0]}) :
            \E pair \in {State_update(i.game, dialogue, chase)} :
            \E ph0 \in Phases :
            \E b1 \in {FirstBranch(st, pair, ph0)} :
            \E last \in (IF b1.ops # <<>> /\ b1.ops[Len(b1.ops)] = "split"
                         THEN BOOLEAN ELSE {FALSE}) :
            \E ph1 \in {PhaseAfter(ph0, b1.ops, last)} :
            \E b2 \in {SecondBranch(st, pair, ph1)} :
              /\ dialogue' = pair
              /\ gameTimePaused' = PausedAfter(gameTimePaused, b1.ops \o b2.ops)
              /\ tick' = FullTick(i.game, i.looked, reads, chase, ph0, b1, ph1, b2)

\* update(), with the settings store as the previous tick found it.
update == updateWith({userSettings}, ChaseResults)

Next == update

Spec == Init /\ [][Next]_vars

\* ------------------------------------------------------------ live settings
\* The operator edits the settings store while the splitter runs: every tick
\* can find any of these stores.  Three toggles are edited, one rule each;
\* memory holds the start, reset and station texts or nothing.
LiveStores ==
  {m \in ToggleMaps : \A n \in ToggleNames \ {"start", "reset", "station"} : m[n]}

LiveMem == {c \in ChaseResults : c.failed = 1 \/ c.text \in {1, 2, 3, 12}}

InitLive == Init /\ userSettings \in LiveStores

updateLive == updateWith(LiveStores, LiveMem)

NextLive == updateLive

SpecLive == InitLive /\ [][NextLive]_vars

\* ------------------------------------------------------------ a game that stays
\* From some moment on the game is running and keeps running.  The host takes
\* that step once, while a handle is still to be had.
Settle ==
  /\ ~stable
  /\ IsSome(game) \/ sessions < MaxSessions
  /\ stable' = TRUE
  /\ UNCHANGED <<game, settings, dialogue, sessions, userSettings, gameTimePaused,
                 tick>>

RetryStores == {DefaultSettings}

RetryMem == {c \in ChaseResults : c.failed = 1 \/ c.text \in {1, 3}}

InitRetry == Init /\ userSettings \in RetryStores

updateRetry == updateWith(RetryStores, RetryMem)

NextRetry == updateRetry \/ Settle

\* The host calls update() again and again.
SpecRetry == InitRetry /\ [][NextRetry]_vars /\ WF_vars(updateRetry)

\* ------------------------------------------------------------ properties
\* The vocabulary of the claims, stated on what the last tick left behind.
Ops == {tick.ops[k] : k \in 1..Len(tick.ops)}

RunningOrPaused == {"Running", "Paused"}

\* The tick refreshed the watcher and went on to the rules.
Refreshed == tick.refreshed = 1 /\ tick.phases # <<>>

Old == Unwrap(dialogue).old

Current == Unwrap(dialogue).current

Changed == Old # Current

AllZero == [k \in Idx |-> 0]

\* Each checkpoint text with the toggle that belongs to it.
Checkpoints ==
  {[text |-> STATION_END, toggle |-> "station"],
   [text |-> END_AMY, toggle |-> "closet"],
   [text |-> END_KNUCKLES, toggle |-> "saloon"],
   [text |-> END_ESPIO_VECTOR, toggle |-> "library"],
   [text |-> END_BLAZE_ROUGE, toggle |-> "casino"],
   [text |-> END_SHADOW, toggle |-> "lounge"],
   [text |-> END_SONIC, toggle |-> "conductor"],
   [text |-> SONIC_CHASE, toggle |-> "sonic_chase"],
   [text |-> ENDING, toggle |-> "ending"]}

\* The reset and split conditions under the toggle values `t`.
ResetCondition(t) == t.reset /\ Changed /\ Current = RESET

SplitCondition(t) == Changed /\ \E c \in Checkpoints : Old = c.text /\ t[c.toggle]

StartCondition(t) == t.start /\ Changed /\ Current = START_SCRIBBLE

\* C1: in a tick under Running or Paused in which both the reset condition and
\* the split condition hold, reset() is issued and split() is not.
C1_ResetWins ==
  (/\ Refreshed
   /\ tick.phases[1] \in RunningOrPaused
   /\ ResetCondition(Unwrap(settings))
   /\ SplitCondition(Unwrap(settings)))
  => ("reset" \in Ops /\ "split" \notin Ops)

C1_Witness ==
  /\ Refreshed
  /\ tick.phases[1] \in RunningOrPaused
  /\ ResetCondition(Unwrap(settings))
  /\ SplitCondition(Unwrap(settings))
  /\ tick.ops = <<"reset">>

\* C2: start is evaluated, and so fires, only under NotRunning; reset and split
\* are evaluated only under Running or Paused; also in a tick whose reset()
\* has just stopped the timer before the start check.
C2_PhaseGates ==
  /\ \A k \in 1..Len(tick.evals) :
       /\ tick.evals[k].rule = "start" => tick.evals[k].phase = "NotRunning"
       /\ tick.evals[k].rule \in {"reset", "split"}
            => tick.evals[k].phase \in RunningOrPaused
  /\ "start" \in Ops =>
       /\ tick.phases[2] = "NotRunning"
       /\ \E k \in 1..Len(tick.evals) : tick.evals[k].rule = "start"
  /\ ("reset" \in Ops \/ "split" \in Ops) => tick.phases[1] \in RunningOrPaused

C2_Witness ==
  /\ tick.phases = <<"Running", "NotRunning">>
  /\ tick.ops = <<"reset">>
  /\ tick.evals = <<[rule |-> "reset", phase |-> "Running"],
                    [rule |-> "start", phase |-> "NotRunning"]>>

\* C3: in a tick under Running or Paused in which reset does not fire, split()
\* is issued exactly when the sample changed and the previous sample equals one
\* of the nine checkpoint texts whose own toggle is on.
C3_SplitExact ==
  (Refreshed /\ tick.phases[1] \in RunningOrPaused /\ "reset" \notin Ops)
  => ("split" \in Ops <=> SplitCondition(Unwrap(settings)))

C3_Witness ==
  /\ Refreshed
  /\ tick.phases[1] = "Running"
  /\ ~Unwrap(settings).reset
  /\ ~Unwrap(settings).closet
  /\ Old = END_AMY
  /\ Current = RESET
  /\ tick.ops = <<>>

\* The chase of the last tick failed at one of its reads.
ChaseFailed == IsSome(tick.mem) /\ Unwrap(tick.mem).failed # 0

\* C4 as claimed: a tick whose chase fails issues no timer call at all.
C4_NoCallOnFailedChase == ChaseFailed => (Current = AllZero /\ tick.ops = <<>>)

\* C4, amended: a tick whose chase fails makes the current sample all-zero and
\* issues neither start() nor reset(); it issues split() exactly when the
\* timer is Running or Paused and the previous sample is a checkpoint text
\* whose toggle is on.
C4_FailedChase ==
  ChaseFailed =>
    /\ Current = AllZero
    /\ "start" \notin Ops
    /\ "reset" \notin Ops
    /\ "split" \in Ops <=>
         (/\ tick.phases[1] \in RunningOrPaused
          /\ \E c \in Checkpoints : Old = c.text /\ Unwrap(settings)[c.toggle])

C4_Witness == ChaseFailed /\ Old = STATION_END /\ tick.ops = <<"split">>

\* C5 as claimed: the first refreshed tick of a session that is not the first
\* sees no change and issues no timer call.
C5_FreshPairPerSession ==
  [][(/\ tick'.refreshed = 1
      /\ tick'.session > 1
      /\ ~(tick.refreshed = 1 /\ tick.session = tick'.session))
     => (/\ Unwrap(dialogue').old = Unwrap(dialogue').current
         /\ tick'.ops = <<>>)]_vars

\* C6 as claimed: a tick that issues start() pauses game time right after it
\* and leaves it paused.
C6_StartThenPause ==
  "start" \in Ops =>
    /\ \E k \in 1..(Len(tick.ops) - 1) :
         tick.ops[k] = "start" /\ tick.ops[k + 1] = "pause_game_time"
    /\ gameTimePaused

\* C6, amended: a tick that issues start() does so under NotRunning and issues
\* no other timer call; game time is not paused.
C6_StartOnly ==
  "start" \in Ops =>
    /\ tick.phases[2] = "NotRunning"
    /\ tick.ops = <<"start">>
    /\ ~gameTimePaused

C6_Witness == tick.phases = <<"NotRunning", "NotRunning">> /\ tick.ops = <<"start">>

\* C7 as claimed: every tick decides start, split and reset by the values the
\* settings store holds at that tick.
C7_LiveToggles ==
  Refreshed =>
    /\ "start" \in Ops <=>
         (tick.phases[2] = "NotRunning" /\ StartCondition(userSettings))
    /\ "reset" \in Ops <=>
         (tick.phases[1] \in RunningOrPaused /\ ResetCondition(userSettings))
    /\ "split" \in Ops <=>
         (/\ tick.phases[1] \in RunningOrPaused
          /\ ~ResetCondition(userSettings)
          /\ SplitCondition(userSettings))

\* C8 as claimed: every tick that finds its session's process open refreshes
\* the watcher once and goes on to the rules.
C8_RefreshWheneverOpen == tick.init = "open" => Refreshed

\* C8, amended: a tick that finds the process open refreshes the watcher once
\* and goes on to the rules if the address is resolved by then; if resolution
\* has failed it ends before both.
C8_RefreshWhenResolved ==
  tick.init = "open" =>
    IF IsSome(Unwrap(game).addresses)
    THEN Refreshed
    ELSE /\ tick.refreshed = 0
         /\ tick.phases = <<>>
         /\ tick.evals = <<>>
         /\ tick.ops = <<>>

C8_Witness ==
  /\ tick.init = "open"
  /\ ~IsSome(Unwrap(game).addresses)
  /\ IsSome(dialogue)
  /\ tick.refreshed = 0

\* The address look_for_addresses yields in the process behind handle `pid`.
ResolvedIn(pid) ==
  Add64(Add64(ScanHitOf(pid), U64Of(3)), Add64(U64Of(4), AsU64(DisplacementOf(pid))))

\* C9: a tick that finds the handle closed clears the session and issues no
\* timer call; the tick after it attaches anew, under a new handle, or stays
\* unattached; and every address read was resolved in the session reading it.
C9_Teardown ==
  /\ [](tick.init = "closed"
          => game = None /\ tick.ops = <<>> /\ tick.refreshed = 0)
  /\ [](IsSome(tick.read) => Unwrap(tick.read) = ResolvedIn(tick.session))
  /\ [](IsSome(game) /\ IsSome(Unwrap(game).addresses)
          => Unwrap(Unwrap(game).addresses).dialogue_base_address
               = ResolvedIn(Unwrap(game).game))
  /\ [][tick.init = "closed"
          => \/ tick'.init = "unattached"
             \/ tick'.session = sessions + 1 /\ tick'.session > tick.session]_vars

C9_Witness == tick.refreshed = 1 /\ tick.session > 1

\* C10: of two consecutive refreshed ticks of one session that see the same
\* memory, the second sees no change and issues no timer call.
C10_SameMemoryNoEvent ==
  [][(/\ tick.refreshed = 1
      /\ tick'.refreshed = 1
      /\ tick'.session = tick.session
      /\ tick'.mem = tick.mem)
     => (/\ Unwrap(dialogue').old = Unwrap(dialogue').current
         /\ tick'.ops = <<>>)]_vars

C10_Witness ==
  /\ Refreshed
  /\ tick.mem = Some([failed |-> 0, text |-> 1])
  /\ Old = START_SCRIBBLE
  /\ Current = START_SCRIBBLE
  /\ Unwrap(settings).start
  /\ tick.phases[1] = "NotRunning"
  /\ tick.ops = <<>>

\* C11: start() is issued exactly when the phase is NotRunning, the start
\* toggle is on and the sample changed to START_SCRIBBLE; reset() exactly when
\* the phase is Running or Paused, the reset toggle is on and the sample
\* changed to RESET; neither on a tick whose sample did not change.
C11_StartResetExact ==
  Refreshed =>
    /\ "start" \in Ops <=>
         (tick.phases[1] = "NotRunning" /\ StartCondition(Unwrap(settings)))
    /\ "start" \in Ops <=>
         (tick.phases[2] = "NotRunning" /\ StartCondition(Unwrap(settings)))
    /\ "reset" \in Ops <=>
         (tick.phases[1] \in RunningOrPaused /\ ResetCondition(Unwrap(settings)))
    /\ Old = Current => ("start" \notin Ops /\ "reset" \notin Ops)

C11_Witness ==
  /\ Refreshed
  /\ Old = RESET
  /\ Current = RESET
  /\ Unwrap(settings).reset
  /\ tick.phases[1] = "Paused"
  /\ tick.ops = <<>>

\* C12: the core never issues a game-time call (pause, resume, set): every
\* timer call of every tick is start(), split() or reset(), and game time is
\* never paused.
C12_NoGameTimeCalls ==
  /\ \A k \in 1..Len(tick.ops) : tick.ops[k] \in {"start", "split", "reset"}
  /\ ~gameTimePaused

C12_Witness ==
  /\ Refreshed
  /\ tick.phases[1] = "Paused"
  /\ tick.evals = <<[rule |-> "reset", phase |-> "Paused"],
                    [rule |-> "split", phase |-> "Paused"]>>
  /\ tick.ops = <<"split">>

\* C13: a tick that did not refresh the watcher (nothing attached, the process
\* closed, the address unresolved) issues no timer call and evaluates no rule,
\* whatever pair the watcher still holds.
C13_NoRefreshNoCall ==
  tick.refreshed = 0 => (tick.ops = <<>> /\ tick.evals = <<>> /\ tick.phases = <<>>)

C13_Witness ==
  /\ tick.init = "open"
  /\ tick.refreshed = 0
  /\ tick.looked
  /\ IsSome(dialogue)
  /\ Old = STATION_END
  /\ Current = START_SCRIBBLE
  /\ Unwrap(settings).start
  /\ Unwrap(settings).station

\* C14: a tick in which one of the five reads of the chase fails pushes 90
\* zeros as the current sample, makes the former current sample the previous
\* one, and leaves the session as it is.
C14_FailedReadGivesZeros ==
  [][(IsSome(tick'.mem) /\ Unwrap(tick'.mem).failed # 0)
     => (/\ Unwrap(dialogue').current = AllZero
         /\ IsSome(dialogue) => Unwrap(dialogue').old = Unwrap(dialogue).current
         /\ IsSome(game')
         /\ IsSome(Unwrap(game').addresses)
         /\ tick'.read = Some(Unwrap(Unwrap(game').addresses).dialogue_base_address)
         /\ (IsSome(game) /\ IsSome(Unwrap(game).addresses)) => game' = game)]_vars

C14_Witness ==
  /\ IsSome(tick.mem)
  /\ Unwrap(tick.mem).failed = 3
  /\ ~tick.looked
  /\ Old = END_SONIC
  /\ Current = AllZero

\* The sample `s` is the buffer `raw` cut at its first zero: element by
\* element it is zero from the first zero of raw on, and raw's element before.
CutAtFirstZero(s, raw) ==
  \A i \in Idx :
    /\ s[i] = 0 <=> (raw[i] = 0 \/ (i > 1 /\ s[i - 1] = 0))
    /\ s[i] # 0 => s[i] = raw[i]

\* No non-zero element of `s` follows a zero element.
ZeroPadded(s) == \A i \in 1..(DialogueLen - 1) : s[i] = 0 => s[i + 1] = 0

\* C15: every stored sample is the raw read cut at its first zero, zero from
\* there on; a raw buffer without a zero is stored whole, 90 elements long.
C15_Truncation ==
  /\ (IsSome(tick.mem) /\ Unwrap(tick.mem).failed = 0)
       => CutAtFirstZero(Current, RawTexts[Unwrap(tick.mem).text])
  /\ IsSome(dialogue) =>
       /\ ZeroPadded(Old)
       /\ ZeroPadded(Current)
       /\ Len(Old) = DialogueLen
       /\ Len(Current) = DialogueLen

C15_Witness ==
  /\ tick.mem = Some([failed |-> 0, text |-> 14])
  /\ RawTexts[14][DialogueLen] # 0
  /\ Current = STATION_END
  /\ Old = Unterminated

\* C16: within a session an address that is present is not looked for again
\* and does not change; a look that fails leaves the address absent and the
\* session attached, and the next tick that finds the process open looks again.
C16_ResolveOncePerSession ==
  /\ [](tick.looked =>
          /\ tick.init = "open"
          /\ IsSome(game)
          /\ Unwrap(game).game = tick.session
          /\ IsSome(Unwrap(game).addresses) <=> tick.refreshed = 1)
  /\ [][/\ (/\ IsSome(game)
            /\ IsSome(Unwrap(game).addresses)
            /\ IsSome(game')
            /\ Unwrap(game').game = Unwrap(game).game)
           => (/\ Unwrap(game').addresses = Unwrap(game).addresses
               /\ ~tick'.looked)
        /\ (/\ IsSome(game)
            /\ ~IsSome(Unwrap(game).addresses)
            /\ tick'.init = "open")
           => (tick'.looked /\ tick'.session = Unwrap(game).game)]_vars

C16_Witness ==
  /\ tick.init = "open"
  /\ ~tick.looked
  /\ tick.refreshed = 1
  /\ tick.session = 2
  /\ tick.read = Some(ResolvedIn(2))

\* A 32-bit value read as a signed number and widened to 64 bits.
SignExtend(x) ==
  x \o (IF x[2] >= Limb \div 2 THEN <<Limb - 1, Limb - 1>> ELSE <<0, 0>>)

\* C17 as claimed: the resolved address is scan_hit + 3 + 4 + d with the 32-bit
\* value d taken as a signed displacement, negative ones included.
C17_SignedDisplacement ==
  (IsSome(game) /\ IsSome(Unwrap(game).addresses)) =>
    Unwrap(Unwrap(game).addresses).dialogue_base_address
      = Add64(Add64(ScanHitOf(Unwrap(game).game), U64Of(3 + 4)),
              SignExtend(DisplacementOf(Unwrap(game).game)))

\* A session with its address resolved whose last tick refreshed the watcher.
ResolvedAndRefreshing ==
  /\ IsSome(game)
  /\ IsSome(Unwrap(game).addresses)
  /\ tick.init = "open"
  /\ tick.refreshed = 1

\* C18: once the game runs and keeps running, the ticks reach a session with a
\* resolved address and from then on every tick refreshes the watcher; a tick
\* whose attachment fails stays unattached and changes nothing else.
C18_RetryUntilResolved ==
  /\ stable ~> []ResolvedAndRefreshing
  /\ [][tick'.init = "unattached"
          => (/\ game = None
              /\ game' = None
              /\ dialogue' = dialogue
              /\ sessions' = sessions
              /\ gameTimePaused' = gameTimePaused
              /\ tick'.refreshed = 0
              /\ tick'.ops = <<>>)]_vars

C18_Witness ==
  /\ stable
  /\ ResolvedAndRefreshing
  /\ tick.looked
  /\ tick.session = 2

\* C19: a tick issues at most one of start(), split() and reset(), also when
\* its reset() stops the timer before the start rule is evaluated.
C19_AtMostOneCall ==
  Cardinality({k \in 1..Len(tick.ops) : tick.ops[k] \in {"start", "split", "reset"}})
    <= 1

C19_Witness ==
  /\ Refreshed
  /\ Unwrap(settings).start
  /\ Current = RESET
  /\ tick.phases = <<"Paused", "NotRunning">>
  /\ tick.ops = <<"reset">>
  /\ \E k \in 1..Len(tick.evals) : tick.evals[k].rule = "start"

\* C20: a tick that finds the timer Ended refreshes the watcher, evaluates no
\* rule and issues no timer call, also when the sample changed to RESET.
C20_EndedIsInert ==
  (tick.phases # <<>> /\ tick.phases[1] = "Ended") =>
    /\ tick.refreshed = 1
    /\ tick.phases[2] = "Ended"
    /\ tick.evals = <<>>
    /\ tick.ops = <<>>

C20_Witness ==
  /\ Refreshed
  /\ tick.phases[1] = "Ended"
  /\ Unwrap(settings).reset
  /\ Old = ENDING
  /\ Current = RESET

====
